---- MODULE Spec2Model ----
(***************************************************************************)
(* Model of the retrieval core of the RAG system:                          *)
(*   - RecursiveCharacterTextSplitter (data_sources/text_splitter.py)      *)
(*   - InMemoryVectorStore            (vector_stores/in_memory.py)         *)
(*   - SimpleRetriever                (retrieval/simple_retriever.py)      *)
(*   - OpenAIEmbedder.embed_documents (embeddings/openai_embeddings.py)    *)
(*   - SimpleRAGChain                 (chain/rag_chain.py)                 *)
(*   - initialize_rag_system          (app.py)                             *)
(* A text is a sequence of one-character strings; a separator is a text.   *)
(* A Python exception is the outcome "ValueError" of the call.             *)
(***************************************************************************)
EXTENDS Integers, Sequences, FiniteSets, TLC

VARIABLES
    \* ---- RecursiveCharacterTextSplitter: the object and its last call
    self_chunk_size,      \* self.chunk_size
    self_chunk_overlap,   \* self.chunk_overlap
    self_separators,      \* self.separators
    arg_text,             \* the text passed to split_text
    split_outcome,        \* "none" (not called yet) | "returned" | "ValueError"
    core_chunks,          \* chunks after _split_text_recursive (line 215)
    ret_chunks,           \* the list split_text returns
    \* ---- InMemoryVectorStore: the object
    documents,            \* self.documents
    embeddings,           \* self.embeddings
    similarity_metric,    \* self.similarity_metric
    \* ---- the call on the store whose result the caller holds
    op,                   \* "none" | "add_documents" | "similarity_search" | "clear"
    op_outcome,           \* "ok" | "ValueError"
    arg_documents,        \* add_documents: documents
    arg_embeddings,       \* add_documents: embeddings
    arg_query,            \* similarity_search: query_embedding
    arg_k,                \* similarity_search: k
    arg_threshold,        \* similarity_search: threshold
    results,              \* similarity_search: the list returned
    \* ---- SimpleRetriever: the object and its last retrieve call
    self_top_k,           \* self.top_k
    self_threshold,       \* self.threshold
    retrieve_top_k,       \* retrieve: top_k as the caller passed it
    retrieve_threshold,   \* retrieve: threshold as the caller passed it
    retrieved,            \* retrieve: the list returned
    \* ---- format_retrieved_documents: its last call
    arg_format_documents, \* documents
    format_outcome,       \* "none" (not called yet) | "returned"
    format_result,        \* the string returned
    \* ---- split_documents: its last call
    arg_split_documents,  \* documents
    split_documents_outcome, \* "none" | "returned" | "ValueError"
    chunked_documents,    \* the list returned
    \* ---- OpenAIEmbedder.embed_documents: its last call and the provider
    arg_embed_count,      \* len(documents); the texts are known by position
    provider_dim,         \* dimensionality of the vectors of self.model
    batch_fails,          \* the batches whose batch call raises
    item_fails,           \* the positions whose single call raises
    embed_outcome,        \* "none" (not called yet) | "returned"
    embed_result,         \* the list returned
    provider_calls,       \* the calls made to the provider, in order
    \* ---- SimpleRAGChain: its last run or run_stream
    chain_query,          \* query
    chain_calls,          \* the calls made to retriever and llm, in order
    chain_context,        \* context
    chain_prompt,         \* prompt
    chain_outcome,        \* "none" | "returned" | the exception raised
    chain_response,       \* the text run returned ("" for a generator)
    chat_calls,           \* the chat calls made to the provider so far
    stream_state,         \* the generator run_stream returned: "none" |
                          \* "created" | "streaming" | "exhausted" | "raised"
    stream_pending,       \* what the provider's response has still to give
    stream_tokens,        \* the tokens the generator has yielded so far
    \* ---- initialize_rag_system
    app_pc,               \* "none" | "start" | "create" | "ready" | "exit"
    cache_file,           \* the embeddings file on disk
    raw_data              \* the chunks of the raw data file, or its absence

split_vars == <<self_chunk_size, self_chunk_overlap, self_separators,
                arg_text, split_outcome, core_chunks, ret_chunks>>

store_fields == <<documents, embeddings, similarity_metric>>

call_vars == <<op, op_outcome, arg_documents, arg_embeddings, arg_query,
               arg_k, arg_threshold, results>>

retriever_fields == <<self_top_k, self_threshold>>

retrieve_vars == <<retrieve_top_k, retrieve_threshold, retrieved>>

format_vars == <<arg_format_documents, format_outcome, format_result>>

split_documents_vars ==
    <<arg_split_documents, split_documents_outcome, chunked_documents>>

embedder_vars == <<arg_embed_count, provider_dim, batch_fails, item_fails,
                   embed_outcome, embed_result, provider_calls>>

chain_vars == <<chain_query, chain_calls, chain_context, chain_prompt,
                chain_outcome, chain_response, chat_calls, stream_state,
                stream_pending, stream_tokens>>

app_vars == <<app_pc, cache_file, raw_data>>

vars == <<split_vars, store_fields, call_vars, retriever_fields,
          retrieve_vars, format_vars, split_documents_vars, embedder_vars,
          chain_vars, app_vars>>

\* ------------------------------------------------------------------ bounds
MaxTextLen == 5
MaxChunkSize == 4
MaxOverlap == 2
MaxDocs == 2
MaxOverlapTextLen == 6

\* ------------------------------------------------------------- characters
Whitespace == {" ", "\n"}
Alphabet == {"a", "b", " ", "\n"}

\* not s.strip(): the text has no character that is not whitespace
IsBlank(s) == \A i \in 1..Len(s) : s[i] \in Whitespace

Texts == UNION {[1..n -> Alphabet] : n \in 0..MaxTextLen}

\* the default separator list of RecursiveCharacterTextSplitter.__init__
DefaultSeparators == << <<"\n", "\n">>, <<"\n">>, <<".", " ">>, <<" ">>, <<>> >>

\* separator lists the splitter is constructed with
SeparatorLists ==
    { DefaultSeparators,
      << <<"\n", "\n">>, <<" ">>, <<>> >>,
      << <<"\n", "\n">>, <<" ">> >>,
      << <<"\n">>, <<" ">> >>,
      << <<" ">> >>,
      << <<>> >> }

\* ------------------------------------------------------ string primitives
\* str.split(sep) for a non-empty sep: cut at the leftmost non-overlapping
\* occurrences, keeping empty pieces.
RECURSIVE str_split_nonempty(_, _)
str_split_nonempty(s, sep) ==
    LET n == Len(sep)
        hits == {i \in 1..(Len(s) - n + 1) : SubSeq(s, i, i + n - 1) = sep}
    IN  IF hits = {}
        THEN <<s>>
        ELSE LET i == CHOOSE h \in hits : \A g \in hits : h <= g
             IN  <<SubSeq(s, 1, i - 1)>>
                     \o str_split_nonempty(SubSeq(s, i + n, Len(s)), sep)

\* str.split raises ValueError("empty separator") when sep is ""
SplitRaises(sep) == sep = <<>>

\* separator.join(pieces)
RECURSIVE str_join(_, _)
str_join(sep, pieces) ==
    IF pieces = <<>> THEN <<>>
    ELSE IF Len(pieces) = 1 THEN pieces[1]
    ELSE pieces[1] \o sep \o str_join(sep, Tail(pieces))

\* a variant of NonBlank that keeps the whitespace-only pieces
NonBlank_KeepAll(splits) == splits

\* [s for s in splits if s.strip()]
NonBlank(splits) == SelectSeq(splits, LAMBDA s : ~IsBlank(s))

\* ------------------------------------------------ _split_text_recursive
Raised == [raised |-> TRUE, chunks |-> <<>>]
Returned(cs) == [raised |-> FALSE, chunks |-> cs]

\* a variant of PackBranch that packs at the last separator only
PackBranch_LastSeparatorOnly(text, seps, depth, chunk_size) ==
    depth = Len(seps) - 1

\* line 160: the branch that packs pieces (last separator, or text fits)
PackBranch(text, seps, depth, chunk_size) ==
    depth = Len(seps) - 1 \/ Len(text) <= chunk_size

\* line 175: the piece still fits into the current chunk
Fits(current_size, split_size, sep_len, chunk_size) ==
    current_size + split_size + sep_len <= chunk_size

\* a variant of GrownSize that forgets the re-inserted separator
GrownSize_NoSeparator(current_size, split_size, sep_len) ==
    current_size + split_size

\* line 178: the size of the current chunk after appending a piece
GrownSize(current_size, split_size, sep_len) ==
    current_size + split_size + sep_len

\* line 185: an oversized piece is split with the next separator
RecurseOnPiece(split_size, seps, depth, chunk_size) ==
    split_size > chunk_size /\ depth < Len(seps) - 1

RECURSIVE split_text_recursive(_, _, _, _)
RECURSIVE pack_splits(_, _, _, _, _, _)

\* lines 172-194: the loop over the pieces; acc is the loop state
\* (raised, chunks, current_chunk, current_size), i the next piece.
pack_splits(splits, i, acc, seps, depth, chunk_size) ==
    IF acc.raised \/ i > Len(splits) THEN acc
    ELSE
      LET split == splits[i]
          separator == seps[depth + 1]
          split_size == Len(split)
      IN
      IF Fits(acc.current_size, split_size, Len(separator), chunk_size)
      THEN pack_splits(splits, i + 1,
               [acc EXCEPT !.current_chunk = Append(@, split),
                           !.current_size =
                               GrownSize(@, split_size, Len(separator))],
               seps, depth, chunk_size)
      ELSE
        LET flushed == IF acc.current_chunk # <<>>
                       THEN Append(acc.chunks,
                                   str_join(separator, acc.current_chunk))
                       ELSE acc.chunks
        IN
        IF RecurseOnPiece(split_size, seps, depth, chunk_size)
        THEN LET sub == split_text_recursive(split, seps, depth + 1, chunk_size)
             IN  IF sub.raised
                 THEN [acc EXCEPT !.raised = TRUE]
                 ELSE pack_splits(splits, i + 1,
                          [raised |-> FALSE, chunks |-> flushed \o sub.chunks,
                           current_chunk |-> <<>>, current_size |-> 0],
                          seps, depth, chunk_size)
        ELSE pack_splits(splits, i + 1,
                 [raised |-> FALSE, chunks |-> flushed,
                  current_chunk |-> <<split>>, current_size |-> split_size],
                 seps, depth, chunk_size)

\* lines 207-211: the loop of the other branch; every non-blank piece is
\* split with the next separator, the results are concatenated.
RECURSIVE descend_splits(_, _, _, _, _)
descend_splits(splits, i, seps, depth, chunk_size) ==
    IF i > Len(splits) THEN Returned(<<>>)
    ELSE IF IsBlank(splits[i])
    THEN descend_splits(splits, i + 1, seps, depth, chunk_size)
    ELSE LET sub == split_text_recursive(splits[i], seps, depth + 1, chunk_size)
         IN  IF sub.raised THEN Raised
             ELSE LET rest == descend_splits(splits, i + 1, seps, depth,
                                             chunk_size)
                  IN  IF rest.raised THEN Raised
                      ELSE Returned(sub.chunks \o rest.chunks)

\* lines 158-213; depth counts from 0 as in the code
split_text_recursive(text, seps, depth, chunk_size) ==
    LET separator == seps[depth + 1]
    IN
    IF SplitRaises(separator) THEN Raised
    ELSE
      IF PackBranch(text, seps, depth, chunk_size)
      THEN LET splits == NonBlank(str_split_nonempty(text, separator))
               done == pack_splits(splits, 1,
                           [raised |-> FALSE, chunks |-> <<>>,
                            current_chunk |-> <<>>, current_size |-> 0],
                           seps, depth, chunk_size)
           IN  IF done.raised THEN Raised
               ELSE IF done.current_chunk # <<>>
               THEN Returned(Append(done.chunks,
                                    str_join(separator, done.current_chunk)))
               ELSE Returned(done.chunks)
      ELSE descend_splits(str_split_nonempty(text, separator), 1,
                          seps, depth, chunk_size)

\* ----------------------------------------------------------- overlap pass
\* previous_text[-chunk_overlap:] for 0 < chunk_overlap < len(previous_text)
LastChars(s, n) == SubSeq(s, Len(s) - n + 1, Len(s))

\* a variant of WithOverlap that takes the overlap from the head of the
\* previous chunk
WithOverlap_Head(previous_text, current_text, chunk_overlap) ==
    IF Len(previous_text) > chunk_overlap
    THEN SubSeq(previous_text, 1, chunk_overlap) \o current_text
    ELSE current_text

\* a variant of WithOverlap that puts a space between overlap and chunk
WithOverlap_Spaced(previous_text, current_text, chunk_overlap) ==
    IF Len(previous_text) > chunk_overlap
    THEN LastChars(previous_text, chunk_overlap) \o <<" ">> \o current_text
    ELSE current_text

\* lines 226-231: chunk i of the new list, from the chunks before the pass
WithOverlap(previous_text, current_text, chunk_overlap) ==
    IF Len(previous_text) > chunk_overlap
    THEN LastChars(previous_text, chunk_overlap) \o current_text
    ELSE current_text

\* a variant of add_overlap that takes each overlap from the previous chunk
\* of the new list, which may already carry an overlap itself
RECURSIVE AccumulateFrom(_, _, _)
AccumulateFrom(chunks, chunk_overlap, done) ==
    IF Len(done) = Len(chunks) THEN done
    ELSE AccumulateFrom(chunks, chunk_overlap,
             Append(done, WithOverlap(done[Len(done)], chunks[Len(done) + 1],
                                      chunk_overlap)))

add_overlap_Accumulating(chunks, chunk_overlap) ==
    IF chunk_overlap > 0 /\ Len(chunks) > 1
    THEN AccumulateFrom(chunks, chunk_overlap, <<chunks[1]>>)
    ELSE chunks

\* lines 218-233
add_overlap(chunks, chunk_overlap) ==
    IF chunk_overlap > 0 /\ Len(chunks) > 1
    THEN [i \in 1..Len(chunks) |->
             IF i = 1 THEN chunks[1]
             ELSE WithOverlap(chunks[i - 1], chunks[i], chunk_overlap)]
    ELSE chunks

\* ------------------------------------------------------------ the splitter
\* threshold = None
NoThreshold == [given |-> FALSE, num |-> 0, den |-> 1]

\* no call on the store is in progress
NoCall ==
    /\ op = "none"
    /\ op_outcome = "ok"
    /\ arg_documents = <<>>
    /\ arg_embeddings = <<>>
    /\ arg_query = <<>>
    /\ arg_k = 0
    /\ arg_threshold = NoThreshold
    /\ results = <<>>

\* top_k = None
NoTopK == [given |-> FALSE, value |-> 0]

\* no retrieve call is in progress
NoRetrieve ==
    /\ retrieve_top_k = NoTopK
    /\ retrieve_threshold = NoThreshold
    /\ retrieved = <<>>

\* no SimpleRetriever has been constructed
NoRetriever ==
    /\ self_top_k = 0
    /\ self_threshold = NoThreshold
    /\ NoRetrieve

\* format_retrieved_documents has not been called
NoFormat ==
    /\ arg_format_documents = <<>>
    /\ format_outcome = "none"
    /\ format_result = ""

\* split_documents has not been called
NoSplitDocuments ==
    /\ arg_split_documents = <<>>
    /\ split_documents_outcome = "none"
    /\ chunked_documents = <<>>

\* embed_documents has not been called
NoEmbedding ==
    /\ arg_embed_count = 0
    /\ provider_dim = 0
    /\ batch_fails = {}
    /\ item_fails = {}
    /\ embed_outcome = "none"
    /\ embed_result = <<>>
    /\ provider_calls = <<>>

\* no response of the provider is being read
NoResponse == [chunks |-> <<>>, breaks |-> FALSE]

\* no chain call is in progress and no generator of one is held
NoChain ==
    /\ chain_query = ""
    /\ chain_calls = <<>>
    /\ chain_context = ""
    /\ chain_prompt = ""
    /\ chain_outcome = "none"
    /\ chain_response = ""
    /\ chat_calls = 0
    /\ stream_state = "none"
    /\ stream_pending = NoResponse
    /\ stream_tokens = <<>>

\* the absence of a file
NoFile == [state |-> "absent", chunks |-> <<>>, embeddings |-> <<>>]

\* initialize_rag_system is not running
NoApp ==
    /\ app_pc = "none"
    /\ cache_file = NoFile
    /\ raw_data = NoFile

SplitInit ==
    /\ self_chunk_size \in 1..MaxChunkSize
    /\ self_chunk_overlap \in 0..MaxOverlap
    /\ self_separators \in SeparatorLists
    /\ arg_text \in Texts
    /\ split_outcome = "none"
    /\ core_chunks = <<>>
    /\ ret_chunks = <<>>
    /\ documents = <<>>
    /\ embeddings = <<>>
    /\ similarity_metric = "cosine"
    /\ NoCall
    /\ NoEmbedding
    /\ NoChain
    /\ NoApp
    /\ NoRetriever
    /\ NoFormat
    /\ NoSplitDocuments

\* RecursiveCharacterTextSplitter.split_text(text), lines 147-235: the call
\* on the text drawn by SplitInit, made once
split_text ==
    LET r == split_text_recursive(arg_text, self_separators, 0,
                                  self_chunk_size)
    IN  /\ split_outcome = "none"
        /\ IF r.raised
           THEN /\ split_outcome' = "ValueError"
                /\ core_chunks' = <<>>
                /\ ret_chunks' = <<>>
           ELSE /\ split_outcome' = "returned"
                /\ core_chunks' = r.chunks
                /\ ret_chunks' = add_overlap(r.chunks, self_chunk_overlap)
        /\ UNCHANGED <<self_chunk_size, self_chunk_overlap, self_separators,
                       arg_text, store_fields, call_vars, retriever_fields,
                       retrieve_vars, format_vars, split_documents_vars,
                   embedder_vars, chain_vars, app_vars>>

SplitNext == split_text

SplitterSpec == SplitInit /\ [][SplitNext]_vars

\* split_text on texts of words long enough for three chunks and more, cut
\* at spaces
OverlapInit ==
    /\ self_chunk_size \in 1..MaxChunkSize
    /\ self_chunk_overlap \in 0..MaxOverlap
    /\ self_separators \in { << <<" ">> >>, << <<" ">>, <<>> >> }
    /\ arg_text \in UNION {[1..n -> {"a", "b", " "}] :
                               n \in 0..MaxOverlapTextLen}
    /\ split_outcome = "none"
    /\ core_chunks = <<>>
    /\ ret_chunks = <<>>
    /\ documents = <<>>
    /\ embeddings = <<>>
    /\ similarity_metric = "cosine"
    /\ NoCall
    /\ NoEmbedding
    /\ NoChain
    /\ NoApp
    /\ NoRetriever
    /\ NoFormat
    /\ NoSplitDocuments

OverlapSpec == OverlapInit /\ [][SplitNext]_vars

\* ------------------------------------------------- InMemoryVectorStore
\* SimilarityMetric, lines 13-19
Metrics == {"cosine", "dot_product", "euclidean"}

\* __init__ stores whatever metric it is given (line 38)
ConstructedMetrics == Metrics \cup {"manhattan"}

Docs == {"A", "B"}
Vectors == {<<1>>, <<1, 0>>, <<0, 1>>, <<0, 0>>}
Queries == {<<1>>, <<1, 0>>, <<1, 1>>, <<0, 0>>}

\* the batches add_documents is called with
BatchLens == 0..2
DocBatches == UNION {[1..n -> Docs] : n \in BatchLens}
EmbeddingBatches == UNION {[1..n -> Vectors] : n \in BatchLens}

\* thresholds are rationals num/den, den > 0; given = FALSE is None
Thresholds == {NoThreshold,
               [given |-> TRUE, num |-> 0, den |-> 1],
               [given |-> TRUE, num |-> 1, den |-> 2]}

Max(a, b) == IF a >= b THEN a ELSE b
Smaller(a, b) == IF a <= b THEN a ELSE b

\* a variant of document_count that counts one entry too many
document_count_OffByOne == Len(documents) + 1

\* document_count, lines 137-145
document_count == Len(documents)

\* a variant of LengthMismatch that only notices surplus documents
LengthMismatch_Longer(docs, embs) == Len(docs) > Len(embs)

\* line 48: len(documents) != len(embeddings)
LengthMismatch(docs, embs) == Len(docs) # Len(embs)

\* line 53: self.documents.extend(documents)
ExtendDocuments(old, docs) == old \o docs

\* a variant of ExtendEmbeddings that puts the new embeddings in front
ExtendEmbeddings_Front(old, embs) == embs \o old

\* line 54: self.embeddings.extend(embeddings)
ExtendEmbeddings(old, embs) == old \o embs

\* ---- numpy, as far as similarity_search uses it
RECURSIVE SumSeq(_)
SumSeq(v) == IF v = <<>> THEN 0 ELSE Head(v) + SumSeq(Tail(v))

Dot(u, v) == SumSeq([i \in 1..Len(u) |-> u[i] * v[i]])
SqNorm(v) == Dot(v, v)

\* line 80: np.array(self.embeddings) of rows of different lengths raises
Ragged(embs) == \E i, j \in 1..Len(embs) : Len(embs[i]) # Len(embs[j])

\* lines 95, 99: np.dot of an (n, d) matrix and an (m,) vector needs d = m
DotAligned(embs, q) == \A i \in 1..Len(embs) : Len(embs[i]) = Len(q)

\* line 103: embeddings_np - query_embedding_np broadcasts when the row
\* length and the query length are equal or one of them is 1
Broadcastable(embs, q) ==
    \A i \in 1..Len(embs) :
        Len(embs[i]) = Len(q) \/ Len(q) = 1 \/ Len(embs[i]) = 1

\* one row of embeddings_np - query_embedding_np
RowMinus(e, q) ==
    IF Len(e) = Len(q) THEN [i \in 1..Len(e) |-> e[i] - q[i]]
    ELSE IF Len(q) = 1 THEN [i \in 1..Len(e) |-> e[i] - q[1]]
    ELSE [i \in 1..Len(q) |-> e[1] - q[i]]

\* A similarity is kept exactly, as a pair (num, den):
\*   cosine       num / sqrt(den): num the dot product of the two vectors,
\*                den the product of their squared norms, a zero norm
\*                replaced by 1 (lines 85-95)
\*   dot_product  num (line 99)
\*   euclidean    1 / (1 + sqrt(num)): num the squared distance (103-105)
Similarity(metric, e, q) ==
    IF metric = "cosine"
    THEN [num |-> Dot(e, q),
          den |-> (IF SqNorm(q) > 0 THEN SqNorm(q) ELSE 1)
                  * (IF SqNorm(e) = 0 THEN 1 ELSE SqNorm(e))]
    ELSE IF metric = "dot_product"
    THEN [num |-> Dot(e, q), den |-> 1]
    ELSE [num |-> SqNorm(RowMinus(e, q)), den |-> 1]

SgnSq(n) == IF n >= 0 THEN n * n ELSE -(n * n)

\* the similarity a is at least the similarity b
SimGE(metric, a, b) ==
    IF metric = "cosine" THEN SgnSq(a.num) * b.den >= SgnSq(b.num) * a.den
    ELSE IF metric = "dot_product" THEN a.num >= b.num
    ELSE a.num <= b.num

\* line 112: similarities >= threshold
MeetsThreshold(metric, a, t) ==
    IF metric = "cosine"
    THEN SgnSq(a.num * t.den) >= SgnSq(t.num) * a.den
    ELSE IF metric = "dot_product" THEN a.num * t.den >= t.num
    ELSE \/ t.num <= 0
         \/ /\ t.den - t.num >= 0
            /\ (t.den - t.num) * (t.den - t.num) >= t.num * t.num * a.num

\* lines 73-108: the call raises ValueError before any result is built
SearchRaises(metric, embs, q) ==
    \/ Ragged(embs)
    \/ metric \in {"cosine", "dot_product"} /\ ~DotAligned(embs, q)
    \/ metric = "euclidean" /\ ~Broadcastable(embs, q)
    \/ metric \notin Metrics

\* a variant of Candidates that ranks every stored position, threshold or not
Candidates_Unfiltered(metric, embs, q, t) == 1..Len(embs)

\* lines 111-113 and 125: the positions that are ranked (1-based here)
Candidates(metric, embs, q, t) ==
    IF t.given
    THEN {i \in 1..Len(embs) : MeetsThreshold(metric, Similarity(metric, embs[i], q), t)}
    ELSE 1..Len(embs)

\* a variant of ArgsortDescending that ranks by ascending similarity
ArgsortAscending(metric, embs, q, cand) ==
    {p \in [1..Cardinality(cand) -> cand] :
        /\ \A i, j \in 1..Cardinality(cand) : i # j => p[i] # p[j]
        /\ \A i, j \in 1..Cardinality(cand) :
               i < j => SimGE(metric, Similarity(metric, embs[p[j]], q),
                                      Similarity(metric, embs[p[i]], q))}

\* lines 116, 125: np.argsort(-similarities) uses numpy's default sort, which
\* is not stable: it yields some order of the positions by descending
\* similarity, equal similarities in any order
ArgsortDescending(metric, embs, q, cand) ==
    {p \in [1..Cardinality(cand) -> cand] :
        /\ \A i, j \in 1..Cardinality(cand) : i # j => p[i] # p[j]
        /\ \A i, j \in 1..Cardinality(cand) :
               i < j => SimGE(metric, Similarity(metric, embs[p[i]], q),
                                      Similarity(metric, embs[p[j]], q))}

\* lines 119, 125: sorted_indices[:k]
SliceTo(order, k) ==
    IF k >= 0 THEN SubSeq(order, 1, Smaller(k, Len(order)))
    ELSE SubSeq(order, 1, Max(Len(order) + k, 0))

\* lines 122, 128: (self.documents[i], float(similarities[i])); pos is i
ResultList(metric, docs, embs, q, sorted_indices) ==
    [n \in 1..Len(sorted_indices) |->
        [pos |-> sorted_indices[n],
         document |-> docs[sorted_indices[n]],
         score |-> Similarity(metric, embs[sorted_indices[n]], q)]]

StoreInit ==
    /\ documents = <<>>
    /\ embeddings = <<>>
    /\ similarity_metric \in ConstructedMetrics
    /\ NoCall
    /\ NoEmbedding
    /\ NoChain
    /\ NoApp
    /\ self_chunk_size = 1
    /\ self_chunk_overlap = 0
    /\ self_separators = DefaultSeparators
    /\ arg_text = <<>>
    /\ split_outcome = "none"
    /\ core_chunks = <<>>
    /\ ret_chunks = <<>>
    /\ NoRetriever
    /\ NoFormat
    /\ NoSplitDocuments

\* add_documents(documents, embeddings), lines 40-54
add_documents(docs, embs) ==
    /\ op = "none"
    /\ op' = "add_documents"
    /\ arg_documents' = docs
    /\ arg_embeddings' = embs
    /\ IF LengthMismatch(docs, embs)
       THEN /\ op_outcome' = "ValueError"
            /\ UNCHANGED <<documents, embeddings>>
       ELSE /\ Len(documents) + Len(docs) <= MaxDocs
            /\ op_outcome' = "ok"
            /\ documents' = ExtendDocuments(documents, docs)
            /\ embeddings' = ExtendEmbeddings(embeddings, embs)
    /\ UNCHANGED <<similarity_metric, arg_query, arg_k, arg_threshold,
                   results, split_vars, retriever_fields, retrieve_vars,
                   format_vars, split_documents_vars,
                   embedder_vars, chain_vars, app_vars>>

\* lines 56-130: what a call of similarity_search does, for the direct caller
\* and for the retriever alike
similarity_search_body(q, k, t) ==
    /\ arg_query' = q
    /\ arg_k' = k
    /\ arg_threshold' = t
    /\ IF embeddings = <<>>
       THEN /\ op_outcome' = "ok"
            /\ results' = <<>>
       ELSE IF SearchRaises(similarity_metric, embeddings, q)
       THEN /\ op_outcome' = "ValueError"
            /\ results' = <<>>
       ELSE \E order \in ArgsortDescending(similarity_metric, embeddings, q,
                             Candidates(similarity_metric, embeddings, q, t)) :
                /\ op_outcome' = "ok"
                /\ results' = ResultList(similarity_metric, documents,
                                         embeddings, q, SliceTo(order, k))

\* similarity_search(query_embedding, k, threshold), lines 56-130
similarity_search(q, k, t) ==
    /\ op = "none"
    /\ op' = "similarity_search"
    /\ similarity_search_body(q, k, t)
    /\ UNCHANGED <<store_fields, arg_documents, arg_embeddings, split_vars,
                   retriever_fields, retrieve_vars, format_vars,
                   split_documents_vars,
                   embedder_vars, chain_vars, app_vars>>

\* clear(), lines 132-135
clear ==
    /\ op = "none"
    /\ op' = "clear"
    /\ op_outcome' = "ok"
    /\ documents' = <<>>
    /\ embeddings' = <<>>
    /\ UNCHANGED <<similarity_metric, arg_documents, arg_embeddings,
                   arg_query, arg_k, arg_threshold, results, split_vars,
                   retriever_fields, retrieve_vars, format_vars,
                   split_documents_vars,
                   embedder_vars, chain_vars, app_vars>>

\* the caller takes the result or the exception of the call and goes on;
\* the store is single-threaded, the next call starts after that
CallerContinues ==
    /\ op # "none"
    /\ op' = "none"
    /\ op_outcome' = "ok"
    /\ arg_documents' = <<>>
    /\ arg_embeddings' = <<>>
    /\ arg_query' = <<>>
    /\ arg_k' = 0
    /\ arg_threshold' = NoThreshold
    /\ results' = <<>>
    /\ retrieve_top_k' = NoTopK
    /\ retrieve_threshold' = NoThreshold
    /\ retrieved' = <<>>
    /\ chain_query' = ""
    /\ chain_calls' = <<>>
    /\ chain_context' = ""
    /\ chain_prompt' = ""
    /\ chain_outcome' = "none"
    /\ chain_response' = ""
    /\ chat_calls' = 0
    /\ stream_state' = "none"
    /\ stream_pending' = NoResponse
    /\ stream_tokens' = <<>>
    /\ UNCHANGED <<store_fields, split_vars, retriever_fields, format_vars,
                   split_documents_vars, embedder_vars, app_vars>>

StoreNext ==
    \/ \E docs \in DocBatches, embs \in EmbeddingBatches :
           add_documents(docs, embs)
    \/ \E q \in Queries, k \in (0 - 1)..(MaxDocs + 1), t \in Thresholds :
           similarity_search(q, k, t)
    \/ clear
    \/ CallerContinues

StoreSpec == StoreInit /\ [][StoreNext]_vars

\* ------------------------------------------------------- SimpleRetriever
\* config.retrieval.top_k and config.retrieval.threshold (0.3) as config.py
\* sets them when the environment does not
config_retrieval_top_k == 5
config_retrieval_threshold == [given |-> TRUE, num |-> 3, den |-> 10]

\* top_k as __init__ and retrieve are given it: None or an int
TopKArgs ==
    {NoTopK} \cup {[given |-> TRUE, value |-> k] : k \in 0..(MaxDocs + 1)}

\* lines 40, 62: top_k or default
ResolveTopK(top_k, default) ==
    IF top_k.given /\ top_k.value # 0 THEN top_k.value ELSE default

\* lines 41, 63: threshold if threshold is not None else default
ResolveThreshold(threshold, default) ==
    IF threshold.given THEN threshold ELSE default

\* line 70: self.embedder.embed_query(query) is a call to an external service;
\* it returns the embedding of the query or raises
EmbedderAnswers ==
    {[raised |-> FALSE, vector |-> q] : q \in Queries}
        \cup {[raised |-> TRUE, vector |-> <<>>]}

\* a variant of StripScores that returns the documents worst-first
StripScores_Reversed(res) ==
    [n \in 1..Len(res) |-> res[Len(res) + 1 - n].document]

\* line 88: [doc for doc, _ in results]
StripScores(res) == [n \in 1..Len(res) |-> res[n].document]

\* the stores and the embeddings the retriever is exercised with
RetrieverMetrics == {"cosine", "euclidean"}
RetrieverVectors == {<<1, 0>>, <<0, 1>>}

\* InMemoryVectorStore() and SimpleRetriever(vector_store, embedder, top_k,
\* threshold), lines 38-41
RetrieverInit ==
    /\ documents = <<>>
    /\ embeddings = <<>>
    /\ similarity_metric \in RetrieverMetrics
    /\ NoCall
    /\ NoEmbedding
    /\ NoChain
    /\ NoApp
    /\ \E top_k \in TopKArgs, threshold \in Thresholds :
           /\ self_top_k = ResolveTopK(top_k, config_retrieval_top_k)
           /\ self_threshold =
                  ResolveThreshold(threshold, config_retrieval_threshold)
    /\ NoRetrieve
    /\ self_chunk_size = 1
    /\ self_chunk_overlap = 0
    /\ self_separators = DefaultSeparators
    /\ arg_text = <<>>
    /\ split_outcome = "none"
    /\ core_chunks = <<>>
    /\ ret_chunks = <<>>
    /\ NoFormat
    /\ NoSplitDocuments

\* the body of retrieve, lines 62-90; embedded is what embed_query answers
\* for the query
retrieve_body(top_k, threshold, embedded) ==
    /\ retrieve_top_k' = top_k
    /\ retrieve_threshold' = threshold
    /\ IF embedded.raised
       THEN /\ op_outcome' = "EmbedderError"
            /\ retrieved' = <<>>
            /\ UNCHANGED <<arg_query, arg_k, arg_threshold, results>>
       ELSE /\ similarity_search_body(embedded.vector,
                                      ResolveTopK(top_k, self_top_k),
                                      ResolveThreshold(threshold,
                                                       self_threshold))
            /\ retrieved' = StripScores(results')

\* a variant of retrieve that keeps the resolved arguments as the
\* retriever's new defaults
retrieve_KeepsArguments(top_k, threshold, embedded) ==
    /\ op = "none"
    /\ op' = "retrieve"
    /\ retrieve_body(top_k, threshold, embedded)
    /\ self_top_k' = ResolveTopK(top_k, self_top_k)
    /\ self_threshold' = ResolveThreshold(threshold, self_threshold)
    /\ UNCHANGED <<store_fields, arg_documents, arg_embeddings, split_vars,
                   format_vars, split_documents_vars,
                   embedder_vars, chain_vars, app_vars>>

\* retrieve(query, top_k, threshold), lines 49-90
retrieve(top_k, threshold, embedded) ==
    /\ op = "none"
    /\ op' = "retrieve"
    /\ retrieve_body(top_k, threshold, embedded)
    /\ UNCHANGED <<store_fields, arg_documents, arg_embeddings, split_vars,
                   retriever_fields, format_vars, split_documents_vars,
                   embedder_vars, chain_vars, app_vars>>

RetrieverNext ==
    \/ \E docs \in DocBatches, embs \in EmbeddingBatches :
           /\ Len(docs) = Len(embs)
           /\ \A i \in 1..Len(embs) : embs[i] \in RetrieverVectors
           /\ add_documents(docs, embs)
    \/ \E top_k \in TopKArgs, threshold \in Thresholds,
          embedded \in EmbedderAnswers :
           retrieve(top_k, threshold, embedded)
    \/ CallerContinues

RetrieverSpec == RetrieverInit /\ [][RetrieverNext]_vars

\* ------------------------------------------ format_retrieved_documents
\* a Python str built from a text
RECURSIVE Str(_)
Str(cs) == IF cs = <<>> THEN "" ELSE Head(cs) \o Str(Tail(cs))

\* Document.metadata is a dict: a function from its keys to their values;
\* the empty dict is the function with empty domain
EmptyDict == <<>>

FormatMetadata ==
    { EmptyDict,
      [source |-> "s.txt"],
      [file_name |-> "s.txt"],
      [chunk |-> 1, chunk_count |-> 2],
      [source |-> "s.txt", chunk |-> 0, chunk_count |-> 2] }

FormatContents == { <<"a">>, <<"a", "\n", "b">> }

\* the documents format_retrieved_documents is called with
FormatDocuments == [content : FormatContents, metadata : FormatMetadata]
FormatInputs == UNION {[1..n -> FormatDocuments] : n \in 0..MaxDocs}

\* a variant of Sentinel: the empty string
Sentinel_Empty == ""

\* line 103
Sentinel == "Es wurden keine relevanten Dokumente gefunden."

\* a dict is truthy when it has a key
Truthy(metadata) == DOMAIN metadata # {}

\* line 108: str(doc.metadata.get('source', 'Unbekannt'))
SourceOrUnknown(metadata) ==
    IF "source" \in DOMAIN metadata THEN metadata["source"] ELSE "Unbekannt"

\* line 109: str(doc.metadata.get(key, 'Unbekannt')) for the two chunk keys,
\* whose values are ints
NumberOrUnknown(metadata, key) ==
    IF key \in DOMAIN metadata THEN ToString(metadata[key]) ELSE "Unbekannt"

\* line 108
source_info(metadata) ==
    IF Truthy(metadata) THEN "Quelle: " \o SourceOrUnknown(metadata)
    ELSE "Quelle: Unbekannt"

\* line 109
chunk_info(metadata) ==
    IF Truthy(metadata)
    THEN "Chunk: " \o NumberOrUnknown(metadata, "chunk") \o "/"
             \o NumberOrUnknown(metadata, "chunk_count")
    ELSE ""

\* line 110, for the document at the 1-based position n (i + 1 in the code)
formatted_text(n, doc) ==
    "[Dokument " \o ToString(n) \o "] " \o source_info(doc.metadata) \o " "
        \o chunk_info(doc.metadata) \o "\n" \o Str(doc.content) \o "\n"

\* line 112: "\n".join(formatted_texts)
RECURSIVE JoinLines(_)
JoinLines(texts) ==
    IF texts = <<>> THEN ""
    ELSE IF Len(texts) = 1 THEN texts[1]
    ELSE texts[1] \o "\n" \o JoinLines(Tail(texts))

\* lines 102-117
FormatResult(docs) ==
    IF docs = <<>> THEN Sentinel
    ELSE JoinLines([n \in 1..Len(docs) |-> formatted_text(n, docs[n])])

\* a retriever built with the configured defaults, and the list its
\* format_retrieved_documents is about to be called with
FormatInit ==
    /\ arg_format_documents \in FormatInputs
    /\ format_outcome = "none"
    /\ format_result = ""
    /\ self_top_k = config_retrieval_top_k
    /\ self_threshold = config_retrieval_threshold
    /\ NoRetrieve
    /\ documents = <<>>
    /\ embeddings = <<>>
    /\ similarity_metric = "cosine"
    /\ NoCall
    /\ NoEmbedding
    /\ NoChain
    /\ NoApp
    /\ self_chunk_size = 1
    /\ self_chunk_overlap = 0
    /\ self_separators = DefaultSeparators
    /\ arg_text = <<>>
    /\ split_outcome = "none"
    /\ core_chunks = <<>>
    /\ ret_chunks = <<>>
    /\ NoSplitDocuments

\* format_retrieved_documents(documents), lines 92-117: the call on the list
\* drawn by FormatInit, made once
format_retrieved_documents ==
    /\ format_outcome = "none"
    /\ format_outcome' = "returned"
    /\ format_result' = FormatResult(arg_format_documents)
    /\ UNCHANGED <<arg_format_documents, split_vars, store_fields, call_vars,
                   retriever_fields, retrieve_vars, split_documents_vars,
                   embedder_vars, chain_vars, app_vars>>

FormatNext == format_retrieved_documents

FormatSpec == FormatInit /\ [][FormatNext]_vars

\* ----------------------------------------------------- split_documents
\* Document.id: None or a str
NoId == [given |-> FALSE, value |-> ""]
DocumentIds == {NoId, [given |-> TRUE, value |-> ""],
                [given |-> TRUE, value |-> "d1"]}

\* the parents split_documents is called with: a text of two pieces, a
\* blank text and a text without separator
SplitContents == { <<"a", " ", "b">>, <<" ">>, <<"a", "a">> }
SplitMetadata == { EmptyDict, [source |-> "s.txt"],
                   [source |-> "s.txt", chunk |-> 7] }
SplitDocuments ==
    [content : SplitContents, metadata : SplitMetadata, id : DocumentIds]
SplitDocumentsInputs == UNION {[1..n -> SplitDocuments] : n \in 0..MaxDocs}

\* the splitters split_documents is called on
SplitDocumentsChunkSizes == {1, 3}
SplitDocumentsOverlaps == {0, 1}
SplitDocumentsSeparators == { << <<" ">> >>, << <<"\n", "\n">>, <<" ">>, <<>> >> }

\* line 250: self.split_text(doc.content), lines 147-235
split_text_of(text) ==
    LET r == split_text_recursive(text, self_separators, 0, self_chunk_size)
    IN  IF r.raised THEN Raised
        ELSE Returned(add_overlap(r.chunks, self_chunk_overlap))

\* lines 252-254: a copy of the parent's dict (a new dict when the parent's
\* is empty) with the keys chunk and chunk_count set; i counts from 0
ChunkMetadata(metadata, i, n) ==
    [k \in DOMAIN metadata \cup {"chunk", "chunk_count"} |->
        IF k = "chunk" THEN i
        ELSE IF k = "chunk_count" THEN n
        ELSE metadata[k]]

\* line 257: f"{doc.id}_{i}" if doc.id else None
ChunkId(id, i) ==
    IF id.given /\ id.value # ""
    THEN [given |-> TRUE, value |-> id.value \o "_" \o ToString(i)]
    ELSE NoId

\* lines 251-258: the Documents of the chunks of one parent
ChunkDocuments(doc, chunks) ==
    [j \in 1..Len(chunks) |->
        [content |-> chunks[j],
         metadata |-> ChunkMetadata(doc.metadata, j - 1, Len(chunks)),
         id |-> ChunkId(doc.id, j - 1)]]

\* lines 249-258: the loop over the parents from position i on; an exception
\* of split_text ends the call
RECURSIVE chunk_documents(_, _)
chunk_documents(docs, i) ==
    IF i > Len(docs) THEN Returned(<<>>)
    ELSE LET r == split_text_of(docs[i].content)
         IN  IF r.raised THEN Raised
             ELSE LET rest == chunk_documents(docs, i + 1)
                  IN  IF rest.raised THEN Raised
                      ELSE Returned(ChunkDocuments(docs[i], r.chunks)
                                        \o rest.chunks)

SplitDocumentsInit ==
    /\ self_chunk_size \in SplitDocumentsChunkSizes
    /\ self_chunk_overlap \in SplitDocumentsOverlaps
    /\ self_separators \in SplitDocumentsSeparators
    /\ arg_text = <<>>
    /\ split_outcome = "none"
    /\ core_chunks = <<>>
    /\ ret_chunks = <<>>
    /\ arg_split_documents \in SplitDocumentsInputs
    /\ split_documents_outcome = "none"
    /\ chunked_documents = <<>>
    /\ documents = <<>>
    /\ embeddings = <<>>
    /\ similarity_metric = "cosine"
    /\ NoCall
    /\ NoEmbedding
    /\ NoChain
    /\ NoApp
    /\ NoRetriever
    /\ NoFormat

\* split_documents(documents), lines 237-260: the call on the list drawn by
\* SplitDocumentsInit, made once; the parents are read, never written
split_documents ==
    LET r == chunk_documents(arg_split_documents, 1)
    IN  /\ split_documents_outcome = "none"
        /\ IF r.raised
           THEN /\ split_documents_outcome' = "ValueError"
                /\ chunked_documents' = <<>>
           ELSE /\ split_documents_outcome' = "returned"
                /\ chunked_documents' = r.chunks
        /\ UNCHANGED <<arg_split_documents, split_vars, store_fields,
                       call_vars, retriever_fields, retrieve_vars,
                       format_vars,
                   embedder_vars, chain_vars, app_vars>>

SplitDocumentsNext == split_documents

SplitDocumentsSpec == SplitDocumentsInit /\ [][SplitDocumentsNext]_vars

\* ------------------------------------- split_text on paragraphs of words
\* texts of three four-letter words with a paragraph break or a space
\* between them
ScenarioWords == { <<"a", "a", "a", "a">>, <<"b", "b", "b", "b">>,
                   <<"c", "c", "c", "c">> }
ScenarioBreaks == { <<"\n", "\n">>, <<" ">> }
ScenarioTexts ==
    { w1 \o s1 \o w2 \o s2 \o w3 :
          w1 \in ScenarioWords, s1 \in ScenarioBreaks, w2 \in ScenarioWords,
          s2 \in ScenarioBreaks, w3 \in ScenarioWords }
ScenarioChunkSizes == {4, 9, 16}
ScenarioOverlaps == {0, 2}
ScenarioSeparators == << <<"\n", "\n">>, <<" ">>, <<>> >>

\* RecursiveCharacterTextSplitter(chunk_size, chunk_overlap, separators),
\* lines 129-145, and the text split_text is about to be called with
ScenarioInit ==
    /\ self_chunk_size \in ScenarioChunkSizes
    /\ self_chunk_overlap \in ScenarioOverlaps
    /\ self_separators = ScenarioSeparators
    /\ arg_text \in ScenarioTexts
    /\ split_outcome = "none"
    /\ core_chunks = <<>>
    /\ ret_chunks = <<>>
    /\ documents = <<>>
    /\ embeddings = <<>>
    /\ similarity_metric = "cosine"
    /\ NoCall
    /\ NoEmbedding
    /\ NoChain
    /\ NoApp
    /\ NoRetriever
    /\ NoFormat
    /\ NoSplitDocuments

ScenarioSpec == ScenarioInit /\ [][SplitNext]_vars

\* --------------------------------- similarity_search on a store of three
\* documents with their embeddings, the components in tenths (cosine does
\* not depend on the unit)
StoreScenarioEntries ==
    { [document |-> "A", embedding |-> <<10, 0>>],
      [document |-> "B", embedding |-> <<0, 10>>],
      [document |-> "C", embedding |-> <<9, 1>>] }
StoreScenarioQueries == { <<10, 0>>, <<0, 10>>, <<10, 10>> }
StoreScenarioKs == 0..4

\* InMemoryVectorStore(SimilarityMetric.COSINE) after one accepted
\* add_documents of three entries (lines 53-54)
StoreScenarioInit ==
    /\ \E entries \in [1..3 -> StoreScenarioEntries] :
           /\ documents = [i \in 1..3 |-> entries[i].document]
           /\ embeddings = [i \in 1..3 |-> entries[i].embedding]
    /\ similarity_metric = "cosine"
    /\ NoCall
    /\ NoEmbedding
    /\ NoChain
    /\ NoApp
    /\ NoRetriever
    /\ NoFormat
    /\ NoSplitDocuments
    /\ self_chunk_size = 1
    /\ self_chunk_overlap = 0
    /\ self_separators = DefaultSeparators
    /\ arg_text = <<>>
    /\ split_outcome = "none"
    /\ core_chunks = <<>>
    /\ ret_chunks = <<>>

StoreScenarioNext ==
    \/ \E q \in StoreScenarioQueries, k \in StoreScenarioKs, t \in Thresholds :
           similarity_search(q, k, t)
    \/ CallerContinues

StoreScenarioSpec == StoreScenarioInit /\ [][StoreScenarioNext]_vars

\* ------------------------------------- OpenAIEmbedder.embed_documents
\* batch_size, line 61
batch_size == 50

\* the length of the dummy embedding, line 89
ZeroVectorDim == 1536

\* the most documents of one call
MaxEmbedDocs == 52

\* the dimensionality of the vectors of the models EMBEDDING_MODEL can name:
\* text-embedding-ada-002 and text-embedding-3-small give 1536 floats,
\* text-embedding-3-large gives 3072
ModelDims == {1536, 3072}

\* the positions whose single call the model lets fail
ItemFailCandidates == {1, 2, batch_size, batch_size + 1, batch_size + 2}

\* response.data[k].embedding of a successful call: the vector the provider
\* computes for the text at position j (1-based), known by that position
ProviderVector(j) == [kind |-> "embedding", text |-> j, dim |-> provider_dim]

\* [0.0] * 1536, line 89
ZeroVector == [kind |-> "zero", text |-> 0, dim |-> ZeroVectorDim]

\* min(i+batch_size, len(texts)), line 78; also the end of the slice
\* texts[i:i+batch_size], line 65
BatchEnd(i, n) == Smaller(i + batch_size, n)

\* texts[i:i+batch_size], line 65, as 1-based positions
BatchTexts(i, n) == [k \in 1..(BatchEnd(i, n) - i) |-> i + k]

RetryRange_FromStart(i, n) == [k \in 1..BatchEnd(i, n) |-> k]

\* range(i, min(i+batch_size, len(texts))), line 78, as 1-based positions
RetryRange(i, n) == [k \in 1..(BatchEnd(i, n) - i) |-> i + k]

\* the provider calls of lines 67-70 and 80-83
BatchCall(i, n) == [kind |-> "batch", first |-> i + 1, last |-> BatchEnd(i, n)]

SingleCall(j) == [kind |-> "single", first |-> j, last |-> j]

\* lines 71-72: one vector per text of the batch
BatchEmbeddings(js) == [k \in 1..Len(js) |-> ProviderVector(js[k])]

\* lines 78-89: each position on its own; a failed one gets the dummy
EmbedSingly(js) ==
    [k \in 1..Len(js) |->
        IF js[k] \in item_fails THEN ZeroVector ELSE ProviderVector(js[k])]

\* the loop of lines 64-89 from batch start i on; acc holds embeddings and
\* the calls made so far
RECURSIVE embed_batches(_, _, _)
embed_batches(i, n, acc) ==
    IF i >= n
    THEN acc
    ELSE embed_batches(i + batch_size, n,
            IF i \in batch_fails
            THEN [embeddings |-> acc.embeddings \o EmbedSingly(RetryRange(i, n)),
                  calls |-> acc.calls \o <<BatchCall(i, n)>>
                            \o [k \in 1..Len(RetryRange(i, n)) |->
                                   SingleCall(RetryRange(i, n)[k])]]
            ELSE [embeddings |-> acc.embeddings
                                 \o BatchEmbeddings(BatchTexts(i, n)),
                  calls |-> acc.calls \o <<BatchCall(i, n)>>])

EmbedderInit ==
    /\ arg_embed_count \in 0..MaxEmbedDocs
    /\ provider_dim \in ModelDims
    \* the batch starts of range(0, len(texts), batch_size), line 64
    /\ batch_fails \in SUBSET { i \in 0..(arg_embed_count - 1) :
                                   i % batch_size = 0 }
    /\ item_fails \in SUBSET (ItemFailCandidates \cap (1..arg_embed_count))
    /\ embed_outcome = "none"
    /\ embed_result = <<>>
    /\ provider_calls = <<>>
    /\ self_chunk_size = 1
    /\ self_chunk_overlap = 0
    /\ self_separators = DefaultSeparators
    /\ arg_text = <<>>
    /\ split_outcome = "none"
    /\ core_chunks = <<>>
    /\ ret_chunks = <<>>
    /\ documents = <<>>
    /\ embeddings = <<>>
    /\ similarity_metric = "cosine"
    /\ NoCall
    /\ NoRetriever
    /\ NoRetrieve
    /\ NoFormat
    /\ NoSplitDocuments
    /\ NoChain
    /\ NoApp

\* embed_documents(documents), lines 47-91
embed_documents ==
    /\ embed_outcome = "none"
    /\ LET done == embed_batches(0, arg_embed_count,
                                 [embeddings |-> <<>>, calls |-> <<>>])
       IN  /\ embed_result' = done.embeddings
           /\ provider_calls' = done.calls
    /\ embed_outcome' = "returned"
    /\ UNCHANGED <<arg_embed_count, provider_dim, batch_fails, item_fails,
                   split_vars, store_fields, call_vars, retriever_fields,
                   retrieve_vars, format_vars, split_documents_vars,
                   chain_vars, app_vars>>

EmbedderNext == embed_documents

EmbedderSpec == EmbedderInit /\ [][EmbedderNext]_vars

\* ------------------------------------------------------- SimpleRAGChain
\* the documents of the store the chain runs on
ChainDocuments ==
    { [content |-> <<"a">>,
       metadata |-> [source |-> "s.txt", chunk |-> 0, chunk_count |-> 2]],
      [content |-> <<"a", "\n", "b">>, metadata |-> EmptyDict] }

\* the lists format_retrieved_documents is called with outside the chain
ChainFormatInputs ==
    { <<>>,
      <<[content |-> <<"a">>,
         metadata |-> [source |-> "s.txt", chunk |-> 0, chunk_count |-> 2]]>> }

ChainQueries == {"Was ist die DSGVO?", ""}

\* what the provider's chat call answers inside llm.generate
\* (openai_llm.py lines 59-69); its exception is re-raised as ValueError,
\* which the model names LLMError to tell it from the search's ValueError
LLMAnswers ==
    { [raised |-> FALSE, text |-> "Antwort"], [raised |-> TRUE, text |-> ""] }

\* what the provider's streaming chat call answers inside
\* llm.generate_stream (openai_llm.py lines 91-104): the call raises, or it
\* gives a response whose chunks carry these contents ("" is a chunk
\* without content) and whose iteration ends or raises after them
StreamAnswers ==
    { [refused |-> TRUE, chunks |-> <<>>, breaks |-> FALSE],
      [refused |-> FALSE, chunks |-> <<>>, breaks |-> FALSE],
      [refused |-> FALSE, chunks |-> <<"Ant", "", "wort">>, breaks |-> FALSE],
      [refused |-> FALSE, chunks |-> <<"", "Ant">>, breaks |-> TRUE] }

\* rag_chain.py lines 36 and 73
FallbackContext == "Es stehen keine relevanten Informationen zur Verfügung."

\* rag_chain.py lines 36-41 and 73-78
ChainContext(docs) ==
    IF docs # <<>> THEN FormatResult(docs) ELSE FallbackContext

\* LLM.format_prompt, llm/base.py lines 55-69
format_prompt(query, context) ==
    "Du bist ein Assistent, der Fragen zur DSGVO (Datenschutz-Grundverordnung) beantwortet.\n"
    \o "Beantworte die folgende Frage ausschließlich basierend auf dem gegebenen Kontext.\n"
    \o "\n"
    \o "Wenn der Kontext die Information \"Es wurden keine relevanten Dokumente gefunden\" enthält oder die Antwort nicht ausreichend im Kontext enthalten ist, antworte mit:\n"
    \o "\"Ich kann diese Frage nicht beantworten, da die nötigen Informationen nicht im bereitgestellten Kontext enthalten sind.\"\n"
    \o "\n"
    \o "Erfinde KEINE Informationen. Nutze KEIN zusätzliches Wissen, das nicht im Kontext enthalten ist. Wenn du dir unsicher bist, sage, dass du die Frage nicht beantworten kannst.\n"
    \o "\n"
    \o "Kontext:\n"
    \o context \o "\n"
    \o "\n"
    \o "Frage:\n"
    \o query \o "\n"
    \o "\n"
    \o "Antwort (basiere deine Antwort ausschließlich auf dem bereitgestellten Kontext):"

\* what run and run_stream share, lines 30-47 and 67-84: retrieve, context
\* and prompt; an exception of retrieve leaves the call as it is; generate
\* is the llm method called next, "generate" or "generate_stream"
chain_body(query, embedded, generate) ==
    /\ op = "none"
    /\ chain_query' = query
    /\ retrieve_body(NoTopK, NoThreshold, embedded)
    /\ IF op_outcome' # "ok"
       THEN /\ chain_calls' = <<"retrieve">>
            /\ chain_context' = ""
            /\ chain_prompt' = ""
       ELSE /\ chain_calls' =
                   <<"retrieve">>
                       \o (IF retrieved' # <<>>
                           THEN <<"format_retrieved_documents">>
                           ELSE <<>>)
                       \o <<"format_prompt", generate>>
            /\ chain_context' = ChainContext(retrieved')
            /\ chain_prompt' = format_prompt(query, ChainContext(retrieved'))
    /\ UNCHANGED <<store_fields, arg_documents, arg_embeddings, split_vars,
                   retriever_fields, format_vars, split_documents_vars,
                   embedder_vars, app_vars>>

\* run(query), lines 19-54: llm.generate (line 51) makes the chat call and
\* returns its text or raises
run(query, embedded, answer) ==
    /\ op' = "run"
    /\ chain_body(query, embedded, "generate")
    /\ IF op_outcome' # "ok"
       THEN /\ chain_outcome' = op_outcome'
            /\ chain_response' = ""
            /\ chat_calls' = 0
       ELSE /\ chain_outcome' = IF answer.raised THEN "LLMError"
                                ELSE "returned"
            /\ chain_response' = answer.text
            /\ chat_calls' = 1
    /\ UNCHANGED <<stream_state, stream_pending, stream_tokens>>

\* run_stream(query), lines 56-88: llm.generate_stream (line 88) is a
\* generator function, so the call only creates the generator; nothing of
\* its body has run and the provider has not been called when run_stream
\* returns
run_stream(query, embedded) ==
    /\ op' = "run_stream"
    /\ chain_body(query, embedded, "generate_stream")
    /\ IF op_outcome' # "ok"
       THEN /\ chain_outcome' = op_outcome'
            /\ stream_state' = "none"
       ELSE /\ chain_outcome' = "returned"
            /\ stream_state' = "created"
    /\ chain_response' = ""
    /\ chat_calls' = 0
    /\ UNCHANGED <<stream_pending, stream_tokens>>

\* openai_llm.py lines 100-101: the chunks without content are passed over
RECURSIVE SkipEmpty(_)
SkipEmpty(chunks) ==
    IF chunks # <<>> /\ Head(chunks) = "" THEN SkipEmpty(Tail(chunks))
    ELSE chunks

\* the generator runs on to its next yield (line 102), to its end, or to
\* the ValueError of line 104, reading the response resp
generator_advance(resp) ==
    LET rest == SkipEmpty(resp.chunks)
    IN  IF rest # <<>>
        THEN /\ stream_state' = "streaming"
             /\ stream_tokens' = Append(stream_tokens, Head(rest))
             /\ stream_pending' = [chunks |-> Tail(rest),
                                   breaks |-> resp.breaks]
        ELSE /\ stream_state' = IF resp.breaks THEN "raised"
                                ELSE "exhausted"
             /\ stream_pending' = NoResponse
             /\ UNCHANGED stream_tokens

\* the caller's first next() on the generator (chat_ui.py lines 89, 113):
\* generate_stream's body starts, lines 83-104, and makes the chat call
generator_start(answer) ==
    /\ stream_state = "created"
    /\ chat_calls' = chat_calls + 1
    /\ IF answer.refused
       THEN /\ stream_state' = "raised"
            /\ UNCHANGED <<stream_pending, stream_tokens>>
       ELSE generator_advance([chunks |-> answer.chunks,
                               breaks |-> answer.breaks])
    /\ UNCHANGED <<chain_query, chain_calls, chain_context, chain_prompt,
                   chain_outcome, chain_response, store_fields, call_vars,
                   split_vars, retriever_fields, retrieve_vars, format_vars,
                   split_documents_vars, embedder_vars, app_vars>>

\* a later next() on the generator, lines 100-104
generator_resume ==
    /\ stream_state = "streaming"
    /\ generator_advance(stream_pending)
    /\ UNCHANGED <<chain_query, chain_calls, chain_context, chain_prompt,
                   chain_outcome, chain_response, chat_calls, store_fields,
                   call_vars, split_vars, retriever_fields, retrieve_vars,
                   format_vars, split_documents_vars, embedder_vars,
                   app_vars>>

\* the chain of app.py lines 76-86: an empty cosine store, a retriever with
\* the configured defaults
ChainInit ==
    /\ documents = <<>>
    /\ embeddings = <<>>
    /\ similarity_metric = "cosine"
    /\ NoCall
    /\ self_top_k = config_retrieval_top_k
    /\ self_threshold = config_retrieval_threshold
    /\ NoRetrieve
    /\ NoChain
    /\ arg_format_documents \in ChainFormatInputs
    /\ format_outcome = "none"
    /\ format_result = ""
    /\ self_chunk_size = 1
    /\ self_chunk_overlap = 0
    /\ self_separators = DefaultSeparators
    /\ arg_text = <<>>
    /\ split_outcome = "none"
    /\ core_chunks = <<>>
    /\ ret_chunks = <<>>
    /\ NoSplitDocuments
    /\ NoEmbedding
    /\ NoApp

ChainNext ==
    \/ \E docs \in UNION {[1..n -> ChainDocuments] : n \in BatchLens},
          embs \in EmbeddingBatches :
           /\ Len(docs) = Len(embs)
           /\ add_documents(docs, embs)
    \/ \E q \in Queries, k \in (0 - 1)..(MaxDocs + 1), t \in Thresholds :
           similarity_search(q, k, t)
    \/ \E top_k \in TopKArgs, threshold \in Thresholds,
          embedded \in EmbedderAnswers :
           retrieve(top_k, threshold, embedded)
    \/ format_retrieved_documents
    \/ \E query \in ChainQueries, embedded \in EmbedderAnswers,
          answer \in LLMAnswers :
           run(query, embedded, answer)
    \/ \E query \in ChainQueries, embedded \in EmbedderAnswers :
           run_stream(query, embedded)
    \/ \E answer \in StreamAnswers : generator_start(answer)
    \/ generator_resume
    \/ CallerContinues

ChainSpec == ChainInit /\ [][ChainNext]_vars

\* ------------------------------------------------ initialize_rag_system
\* a pickled record {'chunks': ..., 'embeddings': ...}, app.py line 140
Record(chunks, embs) ==
    [state |-> "record", chunks |-> chunks, embeddings |-> embs]

\* a file pickle.load or the two key lookups of lines 55-57 raise on
CorruptFile == [state |-> "corrupt", chunks |-> <<>>, embeddings |-> <<>>]

\* the embeddings file found at start: none, an unreadable one, or a record
\* of any two lists
CacheFiles ==
    {NoFile, CorruptFile}
        \cup {Record(chunks, embs) : chunks \in DocBatches,
                                     embs \in EmbeddingBatches}

\* data/raw/dsgvo.txt: missing; a text split_documents raises ValueError on;
\* or a text, known by the chunks split_documents (line 124) returns for it
RawFiles ==
    {NoFile, [state |-> "unsplittable", chunks |-> <<>>, embeddings |-> <<>>]}
        \cup {[state |-> "present", chunks |-> chunks, embeddings |-> <<>>] :
                  chunks \in DocBatches}

\* what embedder.embed_documents(chunks) answers, line 133; the embedder is
\* any Embedder, so the answer is any list or an exception
EmbedDocumentsAnswers ==
    {[raised |-> FALSE, embeddings |-> embs] : embs \in EmbeddingBatches}
        \cup {[raised |-> TRUE, embeddings |-> <<>>]}

\* how lines 139-140 end: the record is written; open raises and the file
\* stays as it was; pickle.dump raises after open truncated the file
DumpOutcomes == {"written", "open_failed", "dump_failed"}

AppInit ==
    /\ app_pc = "start"
    /\ cache_file \in CacheFiles
    /\ raw_data \in RawFiles
    /\ documents = <<>>
    /\ embeddings = <<>>
    /\ similarity_metric = "cosine"
    /\ NoCall
    /\ NoRetriever
    /\ NoFormat
    /\ NoSplitDocuments
    /\ NoEmbedding
    /\ NoChain
    /\ self_chunk_size = 1
    /\ self_chunk_overlap = 0
    /\ self_separators = DefaultSeparators
    /\ arg_text = <<>>
    /\ split_outcome = "none"
    /\ core_chunks = <<>>
    /\ ret_chunks = <<>>

\* initialize_rag_system, lines 50-68, up to the call of
\* create_and_store_embeddings: the store takes the record (add_documents,
\* line 60), or nothing and the fallback is next
load_cache ==
    /\ app_pc = "start"
    /\ IF cache_file.state = "record"
          /\ ~LengthMismatch(cache_file.chunks, cache_file.embeddings)
       THEN /\ documents' = ExtendDocuments(documents, cache_file.chunks)
            /\ embeddings' =
                   ExtendEmbeddings(embeddings, cache_file.embeddings)
            /\ app_pc' = "ready"
       ELSE /\ UNCHANGED <<documents, embeddings>>
            /\ app_pc' = "create"
    /\ UNCHANGED <<similarity_metric, cache_file, raw_data, call_vars,
                   split_vars, retriever_fields, retrieve_vars, format_vars,
                   split_documents_vars, embedder_vars, chain_vars>>

\* create_and_store_embeddings, lines 93-143
create_and_store_embeddings(answer, dump) ==
    /\ app_pc = "create"
    /\ IF raw_data.state = "absent"
       THEN /\ app_pc' = "exit"
            /\ UNCHANGED <<documents, embeddings, cache_file>>
       ELSE IF raw_data.state = "unsplittable"
       THEN /\ app_pc' = "ValueError"
            /\ UNCHANGED <<documents, embeddings, cache_file>>
       ELSE IF answer.raised
               \/ LengthMismatch(raw_data.chunks, answer.embeddings)
       THEN /\ app_pc' = "exit"
            /\ UNCHANGED <<documents, embeddings, cache_file>>
       ELSE /\ documents' = ExtendDocuments(documents, raw_data.chunks)
            /\ embeddings' =
                   ExtendEmbeddings(embeddings, answer.embeddings)
            /\ app_pc' = IF dump = "written" THEN "ready" ELSE "exit"
            /\ cache_file' =
                   IF dump = "written"
                   THEN Record(raw_data.chunks, answer.embeddings)
                   ELSE IF dump = "dump_failed" THEN CorruptFile
                   ELSE cache_file
    /\ UNCHANGED <<similarity_metric, raw_data, call_vars, split_vars,
                   retriever_fields, retrieve_vars, format_vars,
                   split_documents_vars, embedder_vars, chain_vars>>

\* initialize_rag_system, lines 70-90: the retriever gets the configured
\* defaults
construct_chain ==
    /\ app_pc = "ready"
    /\ app_pc' = "done"
    /\ self_top_k' = config_retrieval_top_k
    /\ self_threshold' = config_retrieval_threshold
    /\ UNCHANGED <<store_fields, cache_file, raw_data, call_vars, split_vars,
                   retrieve_vars, format_vars, split_documents_vars,
                   embedder_vars, chain_vars>>

AppNext ==
    \/ load_cache
    \/ \E answer \in EmbedDocumentsAnswers, dump \in DumpOutcomes :
           create_and_store_embeddings(answer, dump)
    \/ construct_chain

AppSpec == AppInit /\ [][AppNext]_vars

\* ===================================================== claims: splitter
BeginsWith(s, prefix) ==
    Len(prefix) <= Len(s) /\ SubSeq(s, 1, Len(prefix)) = prefix

RECURSIVE Concat(_)
Concat(seqs) == IF seqs = <<>> THEN <<>> ELSE Head(seqs) \o Concat(Tail(seqs))

LastSeparator == self_separators[Len(self_separators)]

\* the chunk is one piece of a split on the last separator
SinglePiece(chunk) ==
    LastSeparator # <<>> /\ str_split_nonempty(chunk, LastSeparator) = <<chunk>>

\* C1: split_text never raises, whatever the text, the chunk size, the
\* overlap and the separator list (also one ending in the empty string).
C1_NeverRaises == split_outcome # "ValueError"

\* C2: whenever split_text returns, every chunk before the overlap pass is
\* at most chunk_size long, unless it is a single piece that the last
\* separator cannot split.
C2_CoreChunkBound ==
    split_outcome = "returned" =>
        \A i \in 1..Len(core_chunks) :
            \/ Len(core_chunks[i]) <= self_chunk_size
            \/ SinglePiece(core_chunks[i])

\* a returned call with several chunks: an oversized single piece next to a
\* chunk that fills chunk_size exactly
C2_Witness ==
    /\ split_outcome = "returned"
    /\ Len(core_chunks) >= 2
    /\ \E i \in 1..Len(core_chunks) : Len(core_chunks[i]) > self_chunk_size
    /\ \E i \in 1..Len(core_chunks) : Len(core_chunks[i]) = self_chunk_size

TopPieces == NonBlank(str_split_nonempty(arg_text, self_separators[1]))

\* C3: the non-blank pieces of a split on separators[d] are packed greedily
\* at every depth and for every text, also one longer than chunk_size, so
\* that two adjacent pieces that fit together are emitted in one chunk.
\* Stated for the first two pieces at depth 0: when both pass the packing
\* test starting from an empty chunk, the first chunk begins with the two
\* pieces joined by separators[0].
C3_GreedyAtEveryDepth ==
    ( /\ split_outcome = "returned"
      /\ self_separators[1] # <<>>
      /\ Len(TopPieces) >= 2
      /\ Len(TopPieces[1]) + Len(self_separators[1])
           + Len(TopPieces[2]) + Len(self_separators[1]) <= self_chunk_size )
    => /\ core_chunks # <<>>
       /\ BeginsWith(core_chunks[1],
              TopPieces[1] \o self_separators[1] \o TopPieces[2])

\* C4: chunk i > 0 of the output begins with the last
\* min(chunk_overlap, len(chunk[i-1])) characters of chunk i-1, also when
\* chunk i-1 is no longer than chunk_overlap.
C4_OverlapInvariantMin ==
    split_outcome = "returned" =>
        \A i \in 2..Len(ret_chunks) :
            BeginsWith(ret_chunks[i],
                LastChars(ret_chunks[i - 1],
                    Smaller(self_chunk_overlap, Len(ret_chunks[i - 1]))))

\* C4 as amended: chunk i > 0 begins with the last chunk_overlap characters
\* of chunk i-1 whenever chunk i-1 was, before the overlap pass, longer than
\* chunk_overlap.
C4_OverlapWhenLonger ==
    split_outcome = "returned" =>
        \A i \in 2..Len(ret_chunks) :
            Len(core_chunks[i - 1]) > self_chunk_overlap =>
                BeginsWith(ret_chunks[i],
                    LastChars(ret_chunks[i - 1], self_chunk_overlap))

\* a returned call in which an overlap was prepended to some chunk
C4_Witness ==
    /\ split_outcome = "returned"
    /\ self_chunk_overlap > 0
    /\ \E i \in 2..Len(ret_chunks) :
           /\ Len(core_chunks[i - 1]) > self_chunk_overlap
           /\ ret_chunks[i] # core_chunks[i]

\* the text with the occurrences of the separators (coarse to fine) and the
\* whitespace-only pieces removed
RECURSIVE Content(_, _, _)
Content(s, seps, d) ==
    IF d > Len(seps) THEN s
    ELSE IF seps[d] = <<>> THEN Content(s, seps, d + 1)
    ELSE LET pieces == NonBlank(str_split_nonempty(s, seps[d]))
         IN  Concat([i \in 1..Len(pieces) |-> Content(pieces[i], seps, d + 1)])

ChunksContent ==
    Concat([i \in 1..Len(ret_chunks) |->
               Content(ret_chunks[i], self_separators, 1)])

\* C5: with chunk_overlap = 0 split_text returns, for every text, chunks
\* whose concatenation minus separators is the text minus separators and
\* whitespace-only pieces: nothing dropped, duplicated or reordered.
C5_NoContentLoss ==
    (split_outcome # "none" /\ self_chunk_overlap = 0) =>
        /\ split_outcome = "returned"
        /\ ChunksContent = Content(arg_text, self_separators, 1)

\* ======================================================== claims: store
\* a step in which the store is called
Calls(name) == op = "none" /\ op' = name

\* C6: add_documents with lists of different lengths raises and leaves
\* documents, embeddings and document_count as they were.
C6_MismatchRejected ==
    [][ (Calls("add_documents") /\ Len(arg_documents') # Len(arg_embeddings'))
        => /\ op_outcome' = "ValueError"
           /\ documents' = documents
           /\ embeddings' = embeddings
           /\ document_count' = document_count ]_vars

\* a rejected add_documents on a store that already holds an entry
C6_Witness ==
    /\ op = "add_documents"
    /\ op_outcome = "ValueError"
    /\ Len(arg_documents) # Len(arg_embeddings)
    /\ Len(arg_documents) >= 1
    /\ document_count >= 1

\* C7: documents and embeddings always have the same length, which is
\* document_count; an accepted add_documents appends its two lists, equally
\* long, after the existing entries in input order; clear empties both; no
\* other step changes them.
C7_PositionalPairing ==
    /\ [](Len(documents) = Len(embeddings) /\ document_count = Len(embeddings))
    /\ [][ IF Calls("add_documents") /\ op_outcome' = "ok"
           THEN /\ Len(arg_documents') = Len(arg_embeddings')
                /\ documents' = documents \o arg_documents'
                /\ embeddings' = embeddings \o arg_embeddings'
           ELSE IF Calls("clear")
           THEN documents' = <<>> /\ embeddings' = <<>>
           ELSE documents' = documents /\ embeddings' = embeddings ]_vars

\* an accepted add_documents that appended a pair to a non-empty store
C7_Witness ==
    /\ op = "add_documents"
    /\ op_outcome = "ok"
    /\ Len(arg_documents) >= 1
    /\ document_count > Len(arg_documents)
    /\ documents[document_count] = arg_documents[Len(arg_documents)]
    /\ embeddings[document_count] = arg_embeddings[Len(arg_embeddings)]
    /\ embeddings[1] # embeddings[document_count]

\* C8: add_documents rejects an embedding whose dimensionality differs from
\* the one the first insertion fixed, so all stored embeddings have the same
\* dimensionality.
C8_UniformDimension ==
    \A i, j \in 1..Len(embeddings) : Len(embeddings[i]) = Len(embeddings[j])

ScoresDescend ==
    \A m, n \in 1..Len(results) :
        m < n => SimGE(similarity_metric, results[m].score, results[n].score)

\* C9: on a non-empty store, for each of the three metrics, every query and
\* every k >= document_count, a search without threshold returns
\* document_count results, each stored position once, by descending score.
C9_FullRanking ==
    ( /\ op = "similarity_search"
      /\ document_count >= 1
      /\ similarity_metric \in Metrics
      /\ ~arg_threshold.given
      /\ arg_k >= document_count )
    => /\ op_outcome = "ok"
       /\ Len(results) = document_count
       /\ \A i \in 1..document_count :
              Cardinality({n \in 1..Len(results) : results[n].pos = i}) = 1
       /\ ScoresDescend

\* C10: of two returned entries with equal scores the one inserted earlier
\* comes first, with and without threshold.
C10_TiesByInsertionOrder ==
    (op = "similarity_search" /\ op_outcome = "ok")
    => \A m, n \in 1..Len(results) :
           ( /\ m < n
             /\ SimGE(similarity_metric, results[m].score, results[n].score)
             /\ SimGE(similarity_metric, results[n].score, results[m].score) )
           => results[m].pos < results[n].pos

\* the score of the stored entry i for the query of the call in progress
ScoreOf(i) == Similarity(similarity_metric, embeddings[i], arg_query)

\* the stored positions whose score is at least the threshold of the call
\* in progress; all positions when the call has no threshold
Passing ==
    IF arg_threshold.given
    THEN {i \in 1..Len(embeddings) :
             MeetsThreshold(similarity_metric, ScoreOf(i), arg_threshold)}
    ELSE 1..Len(embeddings)

ReturnedPositions == {results[n].pos : n \in 1..Len(results)}

\* a search on a non-empty store that returned
SearchReturned ==
    op = "similarity_search" /\ op_outcome = "ok" /\ embeddings # <<>>

\* C11: the threshold is applied before ranking, for every metric: no
\* returned entry scores below the threshold, an entry scoring exactly the
\* threshold is kept, every entry that was not returned scores no higher
\* than each returned one or fails the threshold, and with k at least the
\* number of passing entries all of them are returned; without threshold
\* every stored entry is a candidate.
C11_FilterBeforeRank ==
    SearchReturned =>
        /\ ReturnedPositions \subseteq Passing
        /\ \A i \in Passing \ ReturnedPositions :
               \A n \in 1..Len(results) :
                   SimGE(similarity_metric, results[n].score, ScoreOf(i))
        /\ arg_k >= Cardinality(Passing) => ReturnedPositions = Passing
        /\ (ReturnedPositions # Passing) => Len(results) < Cardinality(Passing)

\* a euclidean search with threshold 1/2 over two entries: the one scoring
\* exactly 1/2 is returned, the one scoring less is filtered out though k
\* leaves room for it
C11_Witness ==
    /\ SearchReturned
    /\ similarity_metric = "euclidean"
    /\ arg_threshold = [given |-> TRUE, num |-> 1, den |-> 2]
    /\ Len(embeddings) = 2
    /\ Len(arg_query) = 2
    /\ arg_k >= 2
    /\ Len(results) = 1
    /\ results[1].score.num = 1

\* C12: for every integer k a search returns the first
\* min(max(k, 0), s) entries of the ranking of its s candidates, so never
\* more than k entries, and every returned pair holds the document of its
\* position with the score computed for it.
C12_TopKPrefix ==
    SearchReturned =>
        /\ Len(results) = Smaller(Max(arg_k, 0), Cardinality(Passing))
        /\ \A n \in 1..Len(results) :
               /\ results[n].document = documents[results[n].pos]
               /\ results[n].score = ScoreOf(results[n].pos)

\* C13: a store whose metric is none of cosine, dot_product, euclidean
\* never returns from similarity_search: the call raises whatever the store
\* holds, also when it holds nothing.
C13_UnsupportedMetricFatal ==
    (op = "similarity_search" /\ similarity_metric \notin Metrics)
    => op_outcome = "ValueError"

\* C14: whenever the store holds no documents document_count is 0 and a
\* similarity_search under any of the three metrics returns the empty list
\* without error, for every query, k and threshold; clear() leaves the
\* store without documents.
C14_EmptyStore ==
    /\ [](documents = <<>> =>
            /\ document_count = 0
            /\ (op = "similarity_search" /\ similarity_metric \in Metrics)
               => (op_outcome = "ok" /\ results = <<>>))
    /\ [][Calls("clear") => (documents' = <<>> /\ document_count' = 0)]_vars

\* a search with k >= 1 and a threshold on a store without documents
C14_Witness ==
    /\ op = "similarity_search"
    /\ op_outcome = "ok"
    /\ documents = <<>>
    /\ similarity_metric = "euclidean"
    /\ arg_query = <<1, 1>>
    /\ arg_k >= 1
    /\ arg_threshold.given

\* ==================================================== claims: retriever
\* a retrieve call that reached the store
RetrieveSearched == op = "retrieve" /\ op_outcome # "EmbedderError"

\* C15: retrieve passes to similarity_search the caller's top_k and
\* threshold whenever the caller supplied them, whatever their value (also
\* top_k = 0 and threshold = 0.0), and the retriever's defaults only for a
\* parameter the caller omitted.
C15_CallerValuesWin ==
    RetrieveSearched =>
        /\ arg_k = (IF retrieve_top_k.given THEN retrieve_top_k.value
                    ELSE self_top_k)
        /\ arg_threshold = (IF retrieve_threshold.given THEN retrieve_threshold
                            ELSE self_threshold)

\* C16: retrieve returns the documents of the store's search result for the
\* embedded query and the resolved parameters, as many and in the same
\* best-first order, without the scores.
C16_RetrieveStripsScores ==
    (op = "retrieve" /\ op_outcome = "ok") =>
        /\ Len(retrieved) = Len(results)
        /\ \A n \in 1..Len(results) :
               /\ retrieved[n] = results[n].document
               /\ results[n].document = documents[results[n].pos]
               /\ results[n].score = ScoreOf(results[n].pos)
        /\ ReturnedPositions \subseteq Passing
        /\ ScoresDescend

\* a retrieve that returned two different documents, the one stored second
\* ranked first
C16_Witness ==
    /\ op = "retrieve"
    /\ op_outcome = "ok"
    /\ Len(retrieved) = 2
    /\ retrieved[1] # retrieved[2]
    /\ results[1].pos = 2
    /\ results[1].score # results[2].score

\* the chunk label of a document whose metadata carries chunk information
HasChunkInformation(metadata) ==
    "chunk" \in DOMAIN metadata /\ "chunk_count" \in DOMAIN metadata

\* the block of the document at position n with an optional chunk label
BlockWithOptionalChunkLabel(n, doc) ==
    "[Dokument " \o ToString(n) \o "] Quelle: "
        \o (IF "source" \in DOMAIN doc.metadata THEN doc.metadata["source"]
            ELSE "Unbekannt")
        \o " "
        \o (IF HasChunkInformation(doc.metadata)
            THEN "Chunk: " \o ToString(doc.metadata["chunk"]) \o "/"
                     \o ToString(doc.metadata["chunk_count"])
            ELSE "")
        \o "\n" \o Str(doc.content) \o "\n"

\* C17: for a non-empty list format_retrieved_documents renders one block
\* per document, in the given order and separated by a blank line: the
\* 1-based index, the source label (the fallback literal without a source),
\* a chunk label only when the metadata carries chunk information (none for
\* metadata without chunk and chunk_count), then the content.
C17_ChunkLabelOptional ==
    (format_outcome = "returned" /\ arg_format_documents # <<>>) =>
        format_result =
            JoinLines([n \in 1..Len(arg_format_documents) |->
                BlockWithOptionalChunkLabel(n, arg_format_documents[n])])

\* C18: format_retrieved_documents returns one fixed non-empty sentinel
\* string for the empty list, and for no other list.
C18_SentinelOnlyForEmpty ==
    format_outcome = "returned" =>
        /\ arg_format_documents = <<>> =>
               /\ format_result = "Es wurden keine relevanten Dokumente gefunden."
               /\ format_result # ""
        /\ arg_format_documents # <<>> =>
               format_result # "Es wurden keine relevanten Dokumente gefunden."

\* the call on the empty list has returned the sentinel
C18_Witness ==
    /\ format_outcome = "returned"
    /\ arg_format_documents = <<>>
    /\ format_result = "Es wurden keine relevanten Dokumente gefunden."

\* ============================================== claims: split_documents
\* the chunks of the parent at position d, and where they start in the output
ParentChunks(d) == split_text_of(arg_split_documents[d].content).chunks

RECURSIVE ChunksBefore(_)
ChunksBefore(d) ==
    IF d <= 1 THEN 0 ELSE ChunksBefore(d - 1) + Len(ParentChunks(d - 1))

\* the parent has an id: its id is not None
HasId(doc) == doc.id.given

\* C19: in the list split_documents returns the chunks of each parent are
\* contiguous and in order, parents in input order, a parent without chunks
\* contributing nothing; the i-th chunk (from 0) of a parent with n chunks
\* has all the parent's metadata entries, and chunk = i and chunk_count = n,
\* and the id parent_id + "_" + i when the parent has an id (also an empty
\* one), none otherwise; the parents and their metadata are left as they
\* were.
C19_ChunkLabels ==
    /\ [](split_documents_outcome = "returned" =>
            /\ Len(chunked_documents) =
                   ChunksBefore(Len(arg_split_documents) + 1)
            /\ \A d \in 1..Len(arg_split_documents) :
                 \A i \in 0..(Len(ParentChunks(d)) - 1) :
                   LET parent == arg_split_documents[d]
                       chunk == chunked_documents[ChunksBefore(d) + i + 1]
                   IN  /\ chunk.content = ParentChunks(d)[i + 1]
                       /\ DOMAIN chunk.metadata =
                              DOMAIN parent.metadata
                                  \cup {"chunk", "chunk_count"}
                       /\ \A k \in DOMAIN parent.metadata :
                              chunk.metadata[k] = parent.metadata[k]
                       /\ chunk.metadata["chunk"] = i
                       /\ chunk.metadata["chunk_count"] = Len(ParentChunks(d))
                       /\ IF HasId(parent)
                          THEN /\ chunk.id.given
                               /\ chunk.id.value =
                                      parent.id.value \o "_" \o ToString(i)
                          ELSE ~chunk.id.given)
    /\ [][arg_split_documents' = arg_split_documents]_vars

\* ================================================ claims: split scenario
Word(c) == <<c, c, c, c>>
ParagraphBreak == <<"\n", "\n">>

\* the splitter and the text of the scenario
InParagraphScenario ==
    /\ arg_text = Word("a") \o ParagraphBreak \o Word("b") \o ParagraphBreak
                      \o Word("c")
    /\ self_chunk_size = 9
    /\ self_chunk_overlap = 0
    /\ self_separators = << ParagraphBreak, <<" ">>, <<>> >>

\* C20: with chunk_size 9, chunk_overlap 0 and the separators paragraph
\* break, space, empty string, split_text on aaaa, break, bbbb, break, cccc
\* does not raise and returns exactly the chunks aaaa, bbbb, cccc, each at
\* most 9 characters long.
C20_ParagraphScenario ==
    (InParagraphScenario /\ split_outcome # "none") =>
        /\ split_outcome = "returned"
        /\ ret_chunks = <<Word("a"), Word("b"), Word("c")>>
        /\ \A i \in 1..Len(ret_chunks) : Len(ret_chunks[i]) <= 9

\* the call of the scenario has returned three chunks
C20_Witness ==
    /\ InParagraphScenario
    /\ split_outcome = "returned"
    /\ Len(ret_chunks) = 3

\* ================================================ claims: store scenario
\* the cosine store of A, B, C queried with [1, 0], k = 2, no threshold
InStoreScenario ==
    /\ similarity_metric = "cosine"
    /\ documents = <<"A", "B", "C">>
    /\ embeddings = << <<10, 0>>, <<0, 10>>, <<9, 1>> >>
    /\ op = "similarity_search"
    /\ arg_query = <<10, 0>>
    /\ arg_k = 2
    /\ ~arg_threshold.given

\* C21: the cosine store holding A, B, C with embeddings [1,0], [0,1],
\* [0.9,0.1], queried with [1,0], k = 2 and no threshold, returns exactly
\* two results, A with score 1 and then C with a score strictly between
\* B's score 0 and 1; B is not returned.
C21_StoreScenario ==
    InStoreScenario =>
        /\ op_outcome = "ok"
        /\ Len(results) = 2
        /\ results[1].document = "A"
        /\ results[1].score.num > 0
        /\ results[1].score.num * results[1].score.num = results[1].score.den
        /\ results[2].document = "C"
        /\ results[2].score.num > 0
        /\ results[2].score.num * results[2].score.num < results[2].score.den
        /\ Similarity("cosine", embeddings[2], arg_query).num = 0
        /\ \A n \in 1..Len(results) : results[n].document # "B"

\* the search of the scenario has returned
C21_Witness ==
    /\ InStoreScenario
    /\ op_outcome = "ok"
    /\ Len(results) = 2
    /\ results[2].pos = 3

\* ============================================ claims: blank text, overlap
\* C22: for a text that is empty or only whitespace, of any length and
\* with any separator characters in it, split_text returns the empty list,
\* and split_documents yields no chunk for a document with that text.
C22_BlankTextNoChunks ==
    (IsBlank(arg_text) /\ split_outcome # "none") =>
        /\ split_outcome = "returned"
        /\ ret_chunks = <<>>
        /\ chunk_documents(<<[content |-> arg_text, metadata |-> EmptyDict,
                              id |-> NoId]>>, 1) = Returned(<<>>)

\* a returned call on a whitespace-only text that holds separator
\* characters and is longer than chunk_size
C22_Witness ==
    /\ split_outcome = "returned"
    /\ IsBlank(arg_text)
    /\ Len(arg_text) > self_chunk_size
    /\ \E i \in 1..Len(arg_text) : arg_text[i] = "\n"
    /\ \E i \in 1..Len(arg_text) : arg_text[i] = " "
    /\ LastSeparator = <<>>
    /\ ret_chunks = <<>>

\* C26: the overlap pass keeps the number of chunks and chunk 0; for i > 0
\* the output chunk is the last chunk_overlap characters of the pre-overlap
\* chunk i-1 followed directly by the pre-overlap chunk i when that
\* predecessor is strictly longer than chunk_overlap, and the pre-overlap
\* chunk i otherwise; the predecessor is always the chunk before the pass,
\* so an overlap a chunk received is never passed on to the next one.
C26_OverlapPass ==
    split_outcome = "returned" =>
        /\ Len(ret_chunks) = Len(core_chunks)
        /\ \A i \in 1..Len(core_chunks) :
               ret_chunks[i] =
                   IF i > 1 /\ Len(core_chunks[i - 1]) > self_chunk_overlap
                   THEN SubSeq(core_chunks[i - 1],
                               Len(core_chunks[i - 1]) - self_chunk_overlap + 1,
                               Len(core_chunks[i - 1])) \o core_chunks[i]
                   ELSE core_chunks[i]

\* C26 witness: three chunks with chunk_overlap 1: the second, one character
\* long, received the last character of the first; the third is unchanged,
\* because its predecessor before the pass is no longer than chunk_overlap,
\* although that predecessor is longer in the output
C26_Witness ==
    /\ split_outcome = "returned"
    /\ self_chunk_overlap = 1
    /\ Len(core_chunks) = 3
    /\ core_chunks[1] = <<"a", "b">>
    /\ Len(core_chunks[2]) = 1
    /\ ret_chunks[1] = core_chunks[1]
    /\ ret_chunks[2] = <<"b">> \o core_chunks[2]
    /\ Len(ret_chunks[2]) > self_chunk_overlap
    /\ ret_chunks[3] = core_chunks[3]

\* ===================================================== claims: embedder
\* the start of the batch that holds position j
BatchStartOf(j) == ((j - 1) \div batch_size) * batch_size

\* how many of the provider calls equal c
CallCount(c) ==
    Cardinality({ k \in 1..Len(provider_calls) : provider_calls[k] = c })

\* C23: whatever batch calls and single calls fail, embed_documents returns
\* (it never raises) one vector per input document in input order; every
\* batch is called once; exactly the items of a failed batch are retried one
\* by one, each once, and no item of another batch is called again; an item
\* whose own call fails too gets the zero vector at its own position.
C23_AlignedUnderFailures ==
    embed_outcome # "none" =>
        /\ embed_outcome = "returned"
        /\ Len(embed_result) = arg_embed_count
        /\ \A j \in 1..arg_embed_count :
               /\ embed_result[j] =
                      IF BatchStartOf(j) \in batch_fails /\ j \in item_fails
                      THEN ZeroVector
                      ELSE [kind |-> "embedding", text |-> j,
                            dim |-> provider_dim]
               /\ CallCount([kind |-> "single", first |-> j, last |-> j]) =
                      IF BatchStartOf(j) \in batch_fails THEN 1 ELSE 0
               /\ CallCount([kind |-> "batch",
                             first |-> BatchStartOf(j) + 1,
                             last |-> Smaller(BatchStartOf(j) + batch_size,
                                              arg_embed_count)]) = 1
        /\ \A k \in 1..Len(provider_calls) :
               /\ provider_calls[k].last <= arg_embed_count
               /\ provider_calls[k].kind = "batch" =>
                      BatchStartOf(provider_calls[k].first) + 1 =
                          provider_calls[k].first
               /\ \A m \in 1..(k - 1) :
                      provider_calls[m].first <= provider_calls[k].first

\* C23 witness: 52 documents, the first batch answered, the second failed,
\* its first item failed again and its second item answered
C23_Witness ==
    /\ embed_outcome = "returned"
    /\ arg_embed_count = batch_size + 2
    /\ batch_fails = {batch_size}
    /\ item_fails = {1, batch_size + 1}
    /\ embed_result[1].kind = "embedding"
    /\ embed_result[batch_size + 1] = ZeroVector
    /\ embed_result[batch_size + 2].text = batch_size + 2
    /\ Len(provider_calls) = 4

\* C24: all vectors one embed_documents call returns have the same
\* dimensionality, the zero vector of a failed item included.
C24_SameDimensionality ==
    embed_outcome = "returned" =>
        \A a, b \in 1..Len(embed_result) :
            embed_result[a].dim = embed_result[b].dim

\* ======================================================== claims: chain
\* a run or run_stream call whose retrieve returned
ChainRetrieved ==
    /\ op \in {"run", "run_stream"}
    /\ chain_outcome \in {"returned", "LLMError"}

\* C28: in run and run_stream retrieve is called exactly once and before
\* the generator (the provider's chat call of run, and the generator of
\* run_stream with all its reading, come only after generate or
\* generate_stream was called with the prompt), and when retrieve returns
\* no documents the context in the generator's prompt is the string
\* format_retrieved_documents returns for an empty sequence.
C28_NoDocumentsSentinel ==
    op \in {"run", "run_stream"} =>
        /\ chain_calls # <<>>
        /\ chain_calls[1] = "retrieve"
        /\ \A n \in 2..Len(chain_calls) : chain_calls[n] # "retrieve"
        /\ (chat_calls > 0 \/ stream_state # "none") =>
               /\ Len(chain_calls) > 1
               /\ chain_calls[Len(chain_calls)]
                      \in {"generate", "generate_stream"}
        /\ (ChainRetrieved /\ retrieved = <<>>) =>
               /\ chain_context = FormatResult(<<>>)
               /\ chain_prompt = format_prompt(chain_query, FormatResult(<<>>))

\* the calls that only query: similarity_search, retrieve, and the chain's
\* run and run_stream, which call retrieve and format_retrieved_documents;
\* the reading of run_stream's generator happens while op is "run_stream"
QueryOps == {"similarity_search", "retrieve", "run", "run_stream"}

\* C27: a step of similarity_search, of retrieve (alone or inside run and
\* run_stream) or of format_retrieved_documents leaves the store's documents
\* and embeddings and the retriever's top_k and threshold as they were,
\* whether the call returns or the embedder, the search or the generator
\* raises.
C27_QueriesReadOnly ==
    [][(op' \in QueryOps \/ format_outcome' # format_outcome) =>
           /\ documents' = documents
           /\ embeddings' = embeddings
           /\ self_top_k' = self_top_k
           /\ self_threshold' = self_threshold]_vars

\* C27 witness: a retrieve whose caller gave its own top_k and threshold and
\* whose search raised, on a store that still holds its two entries and a
\* retriever that still holds the configured defaults
C27_Witness ==
    /\ op = "retrieve"
    /\ op_outcome = "ValueError"
    /\ retrieve_top_k = [given |-> TRUE, value |-> 1]
    /\ retrieve_threshold.given
    /\ Len(documents) = 2
    /\ Len(embeddings) = 2
    /\ self_top_k = config_retrieval_top_k
    /\ self_threshold = config_retrieval_threshold

\* ========================================================== claims: app
\* C25: a persisted record whose chunks and embeddings differ in length puts
\* nothing into the store and leads to the fallback; the store is empty
\* whenever the fallback is about to start; and the cache file changes only
\* in a step in which add_documents accepted the fresh chunks and
\* embeddings, a record written then being exactly what the store took, of
\* equal lengths.
C25_CacheRespectsLengths ==
    [][/\ (/\ app_pc = "start"
           /\ cache_file.state = "record"
           /\ Len(cache_file.chunks) # Len(cache_file.embeddings)) =>
              /\ app_pc' = "create"
              /\ documents' = <<>>
              /\ embeddings' = <<>>
       /\ app_pc' = "create" => (documents' = <<>> /\ embeddings' = <<>>)
       /\ cache_file' # cache_file =>
              /\ app_pc = "create"
              /\ documents' = raw_data.chunks
              /\ Len(embeddings') = Len(documents')
              /\ cache_file'.state = "record" =>
                     /\ cache_file'.chunks = documents'
                     /\ cache_file'.embeddings = embeddings'
                     /\ Len(cache_file'.chunks) = Len(cache_file'.embeddings)
      ]_vars

\* C25 witness: the record on disk had two chunks and one embedding, nothing
\* of it is in the store, and the fallback is about to start
C25_Witness ==
    /\ app_pc = "create"
    /\ cache_file.state = "record"
    /\ Len(cache_file.chunks) = 2
    /\ Len(cache_file.embeddings) = 1
    /\ raw_data.state = "present"
    /\ documents = <<>>
    /\ embeddings = <<>>

================================================================
